---- MODULE Spec2Model ----
(***************************************************************************)
(* KML-Viewer: the KMLViewer component of src/src/App.js.                  *)
(*                                                                         *)
(* JavaScript values are records tagged with their typeof ("t").  A string *)
(* that the code scans (coordinate text, toFixed output) is a sequence of  *)
(* one-character strings; the character "I" stands for the eight-letter    *)
(* word Infinity, the only non-digit word parseFloat accepts.  A finite    *)
(* number w + f/Scale is held as its whole part w and its fraction f.      *)
(***************************************************************************)
EXTENDS Integers, Sequences, FiniteSets, TLC

VARIABLES
    elements,      \* useState([])    App.js:70
    summary,       \* useState(null)  App.js:71
    showSummary,   \* useState(false) App.js:72
    showDetailed,  \* useState(false) App.js:73
    readers,       \* FileReaders whose readAsText has not yet fired onload
    hist,          \* history of the run (observation only)
    coordString,   \* argument of parseCoordinates
    coords,        \* argument of calculateLength
    result,        \* value the last call returned
    pc             \* which pure function has been applied

vars == <<elements, summary, showSummary, showDetailed, readers, hist,
          coordString, coords, result, pc>>

sessionVars == <<elements, summary, showSummary, showDetailed>>
geomVars == <<coordString, coords, result, pc>>

-----------------------------------------------------------------------------
(* JavaScript values *)

\* resolution of the fraction of a number: 1/Scale
Scale == 10 * 10 * 10 * 10 * 10

Undefined == [t |-> "undefined"]
Null == [t |-> "null"]
Num(w, f) == [t |-> "number", k |-> "fin", v |-> w, f |-> f]
Deg(d) == Num(d, 0)
NaN == [t |-> "number", k |-> "nan", v |-> 0, f |-> 0]
Infinity(s) == [t |-> "number", k |-> "inf", v |-> s, f |-> 0]
Str(chars) == [t |-> "string", chars |-> chars]
Text(s) == [t |-> "string", text |-> s]
Arr(items) == [t |-> "array", items |-> items]

\* ToBoolean of the values the code tests with ! and ||
Truthy(x) ==
    CASE x.t = "undefined" -> FALSE
      [] x.t = "null" -> FALSE
      [] x.t = "string" ->
            IF "chars" \in DOMAIN x THEN x.chars # <<>> ELSE x.text # ""
      [] x.t = "number" -> x.k # "nan" /\ ~(x.k = "fin" /\ x.v = 0 /\ x.f = 0)
      [] OTHER -> TRUE

isNaN(x) == x.t = "number" /\ x.k = "nan"

DigitChars == <<"0", "1", "2", "3", "4", "5", "6", "7", "8", "9">>
IsDigit(c) == \E d \in 1..10 : DigitChars[d] = c
DigitVal(c) == (CHOOSE d \in 1..10 : DigitChars[d] = c) - 1
IsSpace(c) == c = " "

-----------------------------------------------------------------------------
(* String.prototype.trim, split(/\s+/), split(",") *)

RECURSIVE TrimLeft(_)
TrimLeft(s) ==
    IF s # <<>> /\ IsSpace(Head(s)) THEN TrimLeft(Tail(s)) ELSE s

RECURSIVE TrimRight(_)
TrimRight(s) ==
    IF s # <<>> /\ IsSpace(s[Len(s)]) THEN TrimRight(SubSeq(s, 1, Len(s) - 1)) ELSE s

Trim(s) == TrimRight(TrimLeft(s))

\* s.split(sep) for a one-character separator: empty fields are kept
RECURSIVE SplitChar(_, _)
SplitChar(s, sep) ==
    IF \A i \in 1..Len(s) : s[i] # sep
    THEN <<s>>
    ELSE LET i == CHOOSE j \in 1..Len(s) :
                     s[j] = sep /\ \A h \in 1..(j - 1) : s[h] # sep
         IN  <<SubSeq(s, 1, i - 1)>> \o SplitChar(SubSeq(s, i + 1, Len(s)), sep)

\* s.split(/\s+/): a run of whitespace is one separator
RECURSIVE SplitSpaces(_)
SplitSpaces(s) ==
    IF \A i \in 1..Len(s) : ~IsSpace(s[i])
    THEN <<s>>
    ELSE LET i == CHOOSE j \in 1..Len(s) :
                     IsSpace(s[j]) /\ \A h \in 1..(j - 1) : ~IsSpace(s[h])
         IN  <<SubSeq(s, 1, i - 1)>>
                 \o SplitSpaces(TrimLeft(SubSeq(s, i, Len(s))))

-----------------------------------------------------------------------------
(* parseFloat and Number.prototype.toFixed(2) *)

RECURSIVE DigitPrefix(_)
DigitPrefix(s) ==
    IF s # <<>> /\ IsDigit(Head(s)) THEN <<Head(s)>> \o DigitPrefix(Tail(s)) ELSE <<>>

RECURSIVE IntOf(_)
IntOf(ds) ==
    IF ds = <<>> THEN 0 ELSE IntOf(SubSeq(ds, 1, Len(ds) - 1)) * 10 + DigitVal(ds[Len(ds)])

\* value of the fraction digits ds in units of 1/unit
RECURSIVE FracOf(_, _)
FracOf(ds, unit) ==
    IF ds = <<>> \/ unit = 1 THEN 0
    ELSE DigitVal(Head(ds)) * (unit \div 10) + FracOf(Tail(ds), unit \div 10)

\* the longest prefix that is a decimal literal: [+-] (Infinity | digits [. digits] | . digits)
parseFloat(str) ==
    IF str.t # "string" THEN NaN
    ELSE
    LET s == TrimLeft(str.chars)
        signed == s # <<>> /\ Head(s) \in {"-", "+"}
        sign == IF signed /\ Head(s) = "-" THEN -1 ELSE 1
        r == IF signed THEN Tail(s) ELSE s
        ip == DigitPrefix(r)
        afterInt == SubSeq(r, Len(ip) + 1, Len(r))
        fp == IF afterInt # <<>> /\ Head(afterInt) = "."
              THEN DigitPrefix(Tail(afterInt)) ELSE <<>>
    IN  IF r # <<>> /\ Head(r) = "I" THEN Infinity(sign)
        ELSE IF ip = <<>> /\ fp = <<>> THEN NaN
        ELSE Num(sign * IntOf(ip), sign * FracOf(fp, Scale))

RECURSIVE DigitsOf(_)
DigitsOf(n) ==
    IF n < 10 THEN <<DigitChars[n + 1]>>
    ELSE DigitsOf(n \div 10) \o <<DigitChars[(n % 10) + 1]>>

\* the hundredths nearest to a non-negative x, the larger one on a tie
Hundredths(x) == x.v * 100 + (x.f + (Scale \div 200)) \div (Scale \div 100)

toFixed2(x) ==
    CASE x.k = "nan" -> Str(<<"N", "a", "N">>)
      [] x.k = "inf" -> Str(IF x.v < 0 THEN <<"-", "I">> ELSE <<"I">>)
      [] OTHER ->
            LET h == Hundredths(x)
            IN  Str(DigitsOf(h \div 100) \o <<".">>
                        \o <<DigitChars[((h % 100) \div 10) + 1], DigitChars[(h % 10) + 1]>>)

-----------------------------------------------------------------------------
(* Geometry metrics *)

isValidCoordinate(coord) ==
    /\ coord.t = "array"
    /\ Len(coord.items) = 2
    /\ coord.items[1].t = "number"
    /\ coord.items[2].t = "number"
    /\ ~isNaN(coord.items[1])
    /\ ~isNaN(coord.items[2])

\* R * c of App.js:54-64 for whole-degree endpoints, in 1/Scale km,
\* keyed by <<smaller latitude, larger latitude, |lon2 - lon1|>>
HaversineKm ==
    ( <<0, 0, 0>> :> 0        @@ <<0, 0, 1>> :> 11119493 @@ <<0, 0, 2>> :> 22238985 @@
      <<0, 1, 0>> :> 11119493 @@ <<0, 1, 1>> :> 15724938 @@ <<0, 1, 2>> :> 24862931 @@
      <<0, 2, 0>> :> 22238985 @@ <<0, 2, 1>> :> 24862931 @@ <<0, 2, 2>> :> 31447481 @@
      <<1, 1, 0>> :> 0        @@ <<1, 1, 1>> :> 11117799 @@ <<1, 1, 2>> :> 22235598 @@
      <<1, 2, 0>> :> 11119493 @@ <<1, 2, 1>> :> 15722543 @@ <<1, 2, 2>> :> 24856872 @@
      <<2, 2, 0>> :> 0        @@ <<2, 2, 1>> :> 11112719 @@ <<2, 2, 2>> :> 22225437 )

Abs(n) == IF n < 0 THEN -n ELSE n

\* one segment: sin and cos of an infinite angle are NaN, so is the segment
segmentLength(lat1, lon1, lat2, lon2) ==
    IF \E x \in {lat1, lon1, lat2, lon2} : x.k # "fin"
    THEN NaN
    ELSE LET a == lat1.v
             b == lat2.v
             d == Abs(lon2.v - lon1.v)
             km == HaversineKm[<<IF a < b THEN a ELSE b, IF a < b THEN b ELSE a, d>>]
         IN  Num(km \div Scale, km % Scale)

\* x + y for lengths: non-negative, or NaN
Plus(x, y) ==
    IF x.k = "nan" \/ y.k = "nan" THEN NaN
    ELSE Num(x.v + y.v + (x.f + y.f) \div Scale, (x.f + y.f) % Scale)

RECURSIVE lengthLoop(_, _, _)
lengthLoop(items, i, length) ==
    IF i > Len(items) THEN length
    ELSE LET lat1 == items[i - 1].items[1]
             lon1 == items[i - 1].items[2]
             lat2 == items[i].items[1]
             lon2 == items[i].items[2]
         IN  IF ~isValidCoordinate(Arr(<<lat1, lon1>>)) \/ ~isValidCoordinate(Arr(<<lat2, lon2>>))
             THEN lengthLoop(items, i + 1, length)
             ELSE lengthLoop(items, i + 1, Plus(length, segmentLength(lat1, lon1, lat2, lon2)))

calculateLength(cs) ==
    IF ~Truthy(cs) \/ Len(cs.items) < 2 THEN Num(0, 0)
    ELSE toFixed2(lengthLoop(cs.items, 2, Num(0, 0)))

-----------------------------------------------------------------------------
(* Coordinate parsing *)

parseTuple(coord) ==
    LET fields == SplitChar(coord, ",")
        lng == Str(fields[1])
        lat == IF Len(fields) >= 2 THEN Str(fields[2]) ELSE Undefined
        parsedCoord == Arr(<<parseFloat(lat), parseFloat(lng)>>)
    IN  IF ~Truthy(lng) \/ ~Truthy(lat) THEN Null
        ELSE IF isValidCoordinate(parsedCoord) THEN parsedCoord ELSE Null

\* .map(...) over the tokens: one entry per token, null for a rejected one
RECURSIVE parseTuples(_)
parseTuples(tokens) ==
    IF tokens = <<>> THEN <<>>
    ELSE <<parseTuple(Head(tokens))>> \o parseTuples(Tail(tokens))

parseCoordinates(cstr) ==
    IF ~Truthy(cstr) THEN Arr(<<>>)
    ELSE Arr(SelectSeq(parseTuples(SplitSpaces(Trim(cstr.chars))),
                       LAMBDA coord : coord # Null))

-----------------------------------------------------------------------------
(* KML parser: the placemark objects xml2js hands to processKMLData *)

Obj(fields) == [t |-> "object"] @@ fields

\* x?.[0]
At0(x) == IF x.t = "array" /\ Len(x.items) >= 1 THEN x.items[1] ELSE Undefined

\* x?.f
Get(x, f) == IF x.t = "object" /\ f \in DOMAIN x THEN x[f] ELSE Undefined

Kinds == <<"Point", "LineString", "Polygon", "MultiLineString">>

\* placemark.name?.[0] || label
nameOr(placemark, label) ==
    LET n == At0(Get(placemark, "name"))
    IN  IF Truthy(n) THEN n ELSE Text(label)

\* the count raised only when a record is pushed
pointBranchCountsRecords(placemark) ==
    IF Truthy(Get(placemark, "Point"))
    THEN LET cs == parseCoordinates(At0(Get(At0(Get(placemark, "Point")), "coordinates")))
         IN  IF Len(cs.items) > 0
             THEN [count |-> 1,
                   pushed |-> <<[type |-> "Point", coords |-> cs,
                                 name |-> nameOr(placemark, "Point")]>>]
             ELSE [count |-> 0, pushed |-> <<>>]
    ELSE [count |-> 0, pushed |-> <<>>]

pointBranch(placemark) ==
    IF Truthy(Get(placemark, "Point"))
    THEN LET cs == parseCoordinates(At0(Get(At0(Get(placemark, "Point")), "coordinates")))
         IN  [count |-> 1,
              pushed |-> IF Len(cs.items) > 0
                         THEN <<[type |-> "Point", coords |-> cs,
                                 name |-> nameOr(placemark, "Point")]>>
                         ELSE <<>>]
    ELSE [count |-> 0, pushed |-> <<>>]

\* the threshold off by one: a single coordinate makes a line
lineStringBranchOneCoord(placemark) ==
    IF Truthy(Get(placemark, "LineString"))
    THEN LET cs == parseCoordinates(At0(Get(At0(Get(placemark, "LineString")), "coordinates")))
         IN  [count |-> 1,
              pushed |-> IF Len(cs.items) > 0
                         THEN <<[type |-> "LineString", coords |-> cs,
                                 length |-> calculateLength(cs),
                                 name |-> nameOr(placemark, "LineString")]>>
                         ELSE <<>>]
    ELSE [count |-> 0, pushed |-> <<>>]

lineStringBranch(placemark) ==
    IF Truthy(Get(placemark, "LineString"))
    THEN LET cs == parseCoordinates(At0(Get(At0(Get(placemark, "LineString")), "coordinates")))
         IN  [count |-> 1,
              pushed |-> IF Len(cs.items) > 1
                         THEN <<[type |-> "LineString", coords |-> cs,
                                 length |-> calculateLength(cs),
                                 name |-> nameOr(placemark, "LineString")]>>
                         ELSE <<>>]
    ELSE [count |-> 0, pushed |-> <<>>]

polygonBranch(placemark) ==
    IF Truthy(Get(placemark, "Polygon"))
    THEN LET ring == At0(Get(At0(Get(At0(Get(placemark, "Polygon")), "outerBoundaryIs")),
                             "LinearRing"))
             cs == parseCoordinates(At0(Get(ring, "coordinates")))
         IN  [count |-> 1,
              pushed |-> IF Len(cs.items) > 2
                         THEN <<[type |-> "Polygon", coords |-> cs,
                                 name |-> nameOr(placemark, "Polygon")]>>
                         ELSE <<>>]
    ELSE [count |-> 0, pushed |-> <<>>]

\* .map(line => parseCoordinates(line?.coordinates?.[0]))
RECURSIVE parseLines(_)
parseLines(lines) ==
    IF lines = <<>> THEN <<>>
    ELSE <<parseCoordinates(At0(Get(Head(lines), "coordinates")))>> \o parseLines(Tail(lines))

\* .reduce((acc, coords) => acc + parseFloat(calculateLength(coords)), 0)
RECURSIVE reduceLengths(_, _)
reduceLengths(multiCoords, acc) ==
    IF multiCoords = <<>> THEN acc
    ELSE reduceLengths(Tail(multiCoords),
                       Plus(acc, parseFloat(calculateLength(Head(multiCoords)))))

multiGeometryBranch(placemark) ==
    IF Truthy(Get(placemark, "MultiGeometry"))
          /\ Truthy(Get(At0(Get(placemark, "MultiGeometry")), "LineString"))
    THEN LET lines == Get(At0(Get(placemark, "MultiGeometry")), "LineString").items
             multiCoords == SelectSeq(parseLines(lines), LAMBDA cs : Len(cs.items) > 1)
             totalLength == reduceLengths(multiCoords, Num(0, 0))
         IN  [count |-> 1,
              pushed |-> IF Len(multiCoords) > 0
                         THEN <<[type |-> "MultiLineString", coords |-> Arr(multiCoords),
                                 length |-> toFixed2(totalLength),
                                 name |-> nameOr(placemark, "MultiLineString")]>>
                         ELSE <<>>]
    ELSE [count |-> 0, pushed |-> <<>>]

\* the forEach of App.js:98-134, then the values given to setElements and setSummary
RECURSIVE forEachPlacemark(_, _, _)
forEachPlacemark(placemarks, counts, parsedElements) ==
    IF placemarks = <<>> THEN [counts |-> counts, parsedElements |-> parsedElements]
    ELSE LET pm == Head(placemarks)
             p == pointBranch(pm)
             l == lineStringBranch(pm)
             g == polygonBranch(pm)
             m == multiGeometryBranch(pm)
         IN  forEachPlacemark(
                 Tail(placemarks),
                 [Point |-> counts.Point + p.count,
                  LineString |-> counts.LineString + l.count,
                  Polygon |-> counts.Polygon + g.count,
                  MultiLineString |-> counts.MultiLineString + m.count],
                 parsedElements \o p.pushed \o l.pushed \o g.pushed \o m.pushed)

processKMLData(placemarks) ==
    forEachPlacemark(placemarks,
                     [Point |-> 0, LineString |-> 0, Polygon |-> 0, MultiLineString |-> 0],
                     <<>>)

\* result?.kml?.Document?.[0]?.Placemark || []
placemarksOf(res) ==
    LET found == Get(At0(Get(Get(res, "kml"), "Document")), "Placemark")
    IN  IF Truthy(found) THEN found.items ELSE <<>>

-----------------------------------------------------------------------------
(* Inputs *)

MaxPlacemarks == 2   \* placemarks in one uploaded document
MaxUploads == 3      \* files selected in one session
MaxStrLen == 7       \* characters of a coordinate string given to parseCoordinates
MaxCoords == 3       \* coordinates of a sequence given to calculateLength

RECURSIVE SeqsUpTo(_, _)
SeqsUpTo(S, n) ==
    IF n = 0 THEN {<<>>}
    ELSE LET shorter == SeqsUpTo(S, n - 1)
         IN  shorter \cup {Append(q, x) : q \in {r \in shorter : Len(r) = n - 1}, x \in S}

RECURSIVE JoinSpaces(_)
JoinSpaces(tokens) ==
    IF tokens = <<>> THEN <<>>
    ELSE IF Len(tokens) = 1 THEN tokens[1]
    ELSE tokens[1] \o <<" ">> \o JoinSpaces(Tail(tokens))

\* lon,lat[,alt] tuples
T120 == <<"1", ",", "2", ",", "0">>
T00 == <<"0", ",", "0">>
T01 == <<"0", ",", "1">>
T10 == <<"1", ",", "0">>
T11 == <<"1", ",", "1">>
TNoComma == <<"1">>

COne == T120
CTwo == JoinSpaces(<<T00, T01>>)
CThree == JoinSpaces(<<T00, T10, T11>>)
CThreeAndBad == JoinSpaces(<<T00, TNoComma, T10, T11>>)
CTwoAndBad == JoinSpaces(<<T00, TNoComma, T01>>)

Geom(c) == Obj([coordinates |-> Arr(<<Str(c)>>)])
EmptyTag == Str(<<>>)
Ring(c) == Obj([outerBoundaryIs |-> Arr(<<Obj([LinearRing |-> Arr(<<Geom(c)>>)])>>)])
Lines(cs) == Obj([LineString |-> Arr([i \in 1..Len(cs) |-> Geom(cs[i])])])
Named(n) == [name |-> Arr(<<Text(n)>>)]
One(f, x) == [g \in {f} |-> Arr(<<x>>)]

PlacemarkInputs ==
    { Obj(One("Point", Geom(c))) : c \in {<<>>, COne, CTwo, TNoComma} }
    \cup { Obj(One("Point", EmptyTag)) }
    \cup { Obj(One("LineString", Geom(c))) : c \in {COne, CTwo, CTwoAndBad, CThreeAndBad} }
    \cup { Obj(One("Polygon", Ring(c))) : c \in {CTwo, CThree, CTwoAndBad} }
    \cup { Obj(One("Polygon", EmptyTag)) }
    \cup { Obj(One("MultiGeometry", Lines(cs))) :
              cs \in {<<COne>>, <<CTwo>>, <<COne, CTwo>>, <<CTwo, CTwo>>, <<CTwo, COne, CThree>>} }
    \cup { Obj(One("MultiGeometry", Obj(One("Point", Geom(COne))))) }
    \cup { Obj(One("Point", Geom(COne)) @@ One("LineString", Geom(CTwo))),
           Obj(One("Point", Geom(COne)) @@ One("LineString", Geom(CThree))
                 @@ One("Polygon", Ring(CThree)) @@ One("MultiGeometry", Lines(<<CTwo>>))),
           Obj(One("Point", Geom(<<>>)) @@ One("LineString", Geom(COne))
                 @@ One("Polygon", Ring(CTwo)) @@ One("MultiGeometry", Lines(<<COne>>))),
           Obj(Named("A") @@ One("Point", Geom(COne))),
           Obj(Named("A") @@ One("LineString", Geom(CTwo))),
           Obj(Named("") @@ One("Polygon", Ring(CThree))),
           Obj(Named("A")) }

\* what parseString does with the file's text: err, or a result object
ParseError == [err |-> TRUE, result |-> Undefined]
Parsed(res) == [err |-> FALSE, result |-> res]
Kml(placemarks) ==
    Parsed(Obj([kml |-> Obj([Document |-> Arr(<<Obj([Placemark |-> Arr(placemarks)])>>)])]))
KmlNoPlacemark == Parsed(Obj([kml |-> Obj([Document |-> Arr(<<EmptyTag>>)])]))
KmlNoDocument == Parsed(Obj([kml |-> EmptyTag]))
NotKml == Parsed(Obj([html |-> EmptyTag]))

\* a File: its text stands for what parseString makes of it
FileOf(outcome) == Obj([text |-> outcome])

KMLFiles(n) ==
    { FileOf(Kml(ps)) : ps \in SeqsUpTo(PlacemarkInputs, n) \ {<<>>} }
    \cup { FileOf(ParseError), FileOf(KmlNoPlacemark), FileOf(KmlNoDocument), FileOf(NotKml) }

PointFile == FileOf(Kml(<<Obj(One("Point", Geom(COne)))>>))
LineFile == FileOf(Kml(<<Obj(Named("A") @@ One("LineString", Geom(CTwo))),
                         Obj(One("Point", Geom(<<>>)))>>))
SessionFiles == { PointFile, LineFile, FileOf(ParseError), FileOf(KmlNoDocument) }

-----------------------------------------------------------------------------
(* The KMLViewer component *)

NoFile == Undefined

\* uploads: files selected; resolved: onload callbacks run; processed: calls of
\* processKMLData; selected: the file selected last; last: the file whose read
\* resolved last; applied: the file processKMLData was last called for;
\* overlapped: a file was selected while another was being read; raced: a read
\* resolved before the read of a file selected earlier
NoHistory ==
    [uploads |-> 0, resolved |-> 0, processed |-> 0, selected |-> NoFile,
     last |-> NoFile, applied |-> NoFile, overlapped |-> FALSE, raced |-> FALSE]

Init ==
    /\ elements = <<>>
    /\ summary = Null
    /\ showSummary = FALSE
    /\ showDetailed = FALSE
    /\ readers = <<>>
    /\ hist = NoHistory
    /\ coordString = Undefined
    /\ coords = Undefined
    /\ result = Undefined
    /\ pc = "session"

\* onChange of the file input: a FileReader starts reading the file
handleFileUpload(file) ==
    /\ IF ~Truthy(file)
       THEN UNCHANGED <<readers, hist>>
       ELSE /\ readers' = Append(readers, file)
            /\ hist' = [hist EXCEPT !.uploads = @ + 1,
                                    !.selected = file,
                                    !.overlapped = @ \/ readers # <<>>]
    /\ UNCHANGED <<sessionVars, geomVars>>

\* what the four setters of App.js:136-139 leave in the state
\* setSummary skipped once a summary is held
setSessionKeepsSummary(placemarks) ==
    LET done == processKMLData(placemarks)
    IN  /\ elements' = done.parsedElements
        /\ summary' = IF summary = Null THEN done.counts ELSE summary
        /\ showSummary' = FALSE
        /\ showDetailed' = FALSE

setSession(placemarks) ==
    LET done == processKMLData(placemarks)
    IN  /\ elements' = done.parsedElements
        /\ summary' = done.counts
        /\ showSummary' = FALSE
        /\ showDetailed' = FALSE

\* the parseString callback
\* the error branch clearing the session instead of returning
parseCallbackClears(err, res) ==
    IF err
    THEN elements' = <<>> /\ summary' = Null /\ UNCHANGED <<showSummary, showDetailed>>
    ELSE setSession(placemarksOf(res))

parseCallback(err, res) ==
    IF err THEN UNCHANGED sessionVars
    ELSE setSession(placemarksOf(res))

\* reader.onload of the i-th reader still reading; reads finish in any order
readerOnload(i) ==
    /\ i \in 1..Len(readers)
    /\ LET file == readers[i]
           parsed == file.text
       IN  /\ parseCallback(parsed.err, parsed.result)
           /\ hist' = [hist EXCEPT !.resolved = @ + 1,
                                   !.processed = IF parsed.err THEN @ ELSE @ + 1,
                                   !.last = file,
                                   !.applied = IF parsed.err THEN @ ELSE file,
                                   !.raced = @ \/ i > 1]
    /\ readers' = [j \in 1..(Len(readers) - 1) |-> IF j < i THEN readers[j] ELSE readers[j + 1]]
    /\ UNCHANGED geomVars

\* the Summary button without setShowDetailed(false)
clickSummaryKeepsMap ==
    /\ showSummary' = TRUE
    /\ UNCHANGED <<showDetailed, elements, summary, readers, hist, geomVars>>

clickSummary ==
    /\ showSummary' = TRUE
    /\ showDetailed' = FALSE
    /\ UNCHANGED <<elements, summary, readers, hist, geomVars>>

clickDetailed ==
    /\ showSummary' = FALSE
    /\ showDetailed' = TRUE
    /\ UNCHANGED <<elements, summary, readers, hist, geomVars>>

\* the overlay line 187-198 returns for one record; null when no branch matches
overlayOf(el) ==
    IF el.type = "Point" /\ isValidCoordinate(el.coords)
    THEN [overlay |-> "Marker", popup |-> <<el.name>>]
    ELSE IF el.type = "LineString" /\ \A i \in 1..Len(el.coords.items) : isValidCoordinate(el.coords.items[i])
    THEN [overlay |-> "Polyline", popup |-> <<el.name, el.length>>]
    ELSE IF el.type = "Polygon" /\ \A i \in 1..Len(el.coords.items) : isValidCoordinate(el.coords.items[i])
    THEN [overlay |-> "Polygon", popup |-> <<el.name>>]
    ELSE Null

\* the children of MapContainer; no map when the condition of line 183 fails
mapOverlays ==
    IF showDetailed /\ Len(elements) > 0
    THEN [i \in 1..Len(elements) |-> overlayOf(elements[i])]
    ELSE <<>>

Next ==
    \/ hist.uploads < MaxUploads /\ \E file \in SessionFiles \cup {NoFile} : handleFileUpload(file)
    \/ \E i \in 1..Len(readers) : readerOnload(i)
    \/ clickSummary
    \/ clickDetailed

Spec == Init /\ [][Next]_vars

\* one upload, of any of the documents of KMLFiles
NextKML ==
    \/ hist.uploads = 0 /\ \E file \in KMLFiles(MaxPlacemarks) : handleFileUpload(file)
    \/ \E i \in 1..Len(readers) : readerOnload(i)
    \/ clickSummary
    \/ clickDetailed

SpecKML == Init /\ [][NextKML]_vars

-----------------------------------------------------------------------------
(* parseCoordinates and calculateLength applied to arbitrary arguments *)

Alphabet == {"1", "2", ",", " ", "-", "I"}

StringInputs(n) == {Undefined} \cup {Str(chars) : chars \in SeqsUpTo(Alphabet, n)}

PairInputs ==
    {Arr(<<Deg(lat), Deg(lon)>>) : lat \in {0, 1, 2}, lon \in {0, 1, 2}}
    \cup {Arr(<<NaN, Deg(0)>>), Arr(<<Deg(0), Infinity(1)>>)}

CoordsInputs(n) == {Undefined} \cup {Arr(items) : items \in SeqsUpTo(PairInputs, n)}

InitGeom ==
    /\ elements = <<>>
    /\ summary = Null
    /\ showSummary = FALSE
    /\ showDetailed = FALSE
    /\ readers = <<>>
    /\ hist = NoHistory
    /\ result = Undefined
    /\ \/ pc = "parse" /\ coordString \in StringInputs(MaxStrLen) /\ coords = Undefined
       \/ pc = "measure" /\ coords \in CoordsInputs(MaxCoords) /\ coordString = Undefined

callParseCoordinates ==
    /\ pc = "parse"
    /\ result' = parseCoordinates(coordString)
    /\ pc' = "parsed"
    /\ UNCHANGED <<sessionVars, readers, hist, coordString, coords>>

callCalculateLength ==
    /\ pc = "measure"
    /\ result' = calculateLength(coords)
    /\ pc' = "measured"
    /\ UNCHANGED <<sessionVars, readers, hist, coordString, coords>>

NextGeom == callParseCoordinates \/ callCalculateLength

SpecGeom == InitGeom /\ [][NextGeom]_vars

-----------------------------------------------------------------------------
(* Properties of the session (Spec) *)

FailedOnload == hist'.resolved = hist.resolved + 1 /\ hist'.last.text.err
SuccessfulOnload == hist'.resolved = hist.resolved + 1 /\ ~hist'.last.text.err
LastFailed == hist.resolved > 0 /\ hist.last.text.err

\* C1: an onload whose XML parse fails leaves elements, summary, showSummary and
\* showDetailed exactly as they were and does not call processKMLData, whatever
\* the session held before.
C1_ParseFailureKeepsState ==
    [][FailedOnload => UNCHANGED sessionVars /\ hist'.processed = hist.processed]_vars

\* a parse failure has happened while the session held an earlier document
C1_Witness == LastFailed /\ Len(elements) > 0 /\ showSummary

resultOf(file) == processKMLData(placemarksOf(file.text.result))

\* C7 as stated: once every read of overlapping uploads has resolved, elements and
\* summary are those of the file whose read resolved last (stated here only for
\* runs in which some file parsed, so that the session holds a document).
C7_LastResolvedWins ==
    (hist.overlapped /\ readers = <<>> /\ hist.processed > 0) =>
        /\ elements = resultOf(hist.last).parsedElements
        /\ summary = resultOf(hist.last).counts

\* C7 amended: in every state elements and summary are both those of the file
\* whose read resolved last among the files that parsed (the initial pair when
\* none has); a file whose parse fails is passed over.
C7_LastParsedWins ==
    IF hist.applied = NoFile
    THEN elements = <<>> /\ summary = Null
    ELSE /\ elements = resultOf(hist.applied).parsedElements
         /\ summary = resultOf(hist.applied).counts

\* two overlapping reads both resolved, the file selected last first: the session
\* holds the other file's document
C7_Witness ==
    /\ hist.uploads = 2 /\ hist.resolved = 2 /\ readers = <<>>
    /\ hist.overlapped /\ hist.raced
    /\ ~hist.selected.text.err /\ ~hist.last.text.err
    /\ hist.selected # hist.last
    /\ elements = resultOf(hist.last).parsedElements
    /\ elements # resultOf(hist.selected).parsedElements

\* C8: in detailed mode every record of the session is drawn: a Point as a marker,
\* a LineString or MultiLineString as a polyline whose popup shows name and
\* length, a Polygon as a polygon, each with its name in the popup.
C8_EveryRecordRendered ==
    (showDetailed /\ Len(elements) > 0) =>
        \A i \in 1..Len(elements) :
            LET el == elements[i]
            IN  mapOverlays[i] =
                  CASE el.type = "Point" -> [overlay |-> "Marker", popup |-> <<el.name>>]
                    [] el.type = "Polygon" -> [overlay |-> "Polygon", popup |-> <<el.name>>]
                    [] OTHER -> [overlay |-> "Polyline", popup |-> <<el.name, el.length>>]

\* C9: the two flags are never both true; the session starts in mode none, a
\* successful upload returns to none, a failed upload keeps the mode.
C9_DisplayModes ==
    /\ ~showSummary /\ ~showDetailed
    /\ [][/\ ~(showSummary' /\ showDetailed')
          /\ SuccessfulOnload => ~showSummary' /\ ~showDetailed'
          /\ FailedOnload => UNCHANGED <<showSummary, showDetailed>>]_vars

\* the map is up, after a successful and then a failed upload
C9_Witness == showDetailed /\ ~showSummary /\ LastFailed /\ hist.processed > 0

-----------------------------------------------------------------------------
(* Properties of one processed document (SpecKML) *)

Processed == hist.processed > 0
Document == placemarksOf(hist.applied.text.result)

\* the placemark carries the tag of the kind
HasTag(pm, kind) ==
    CASE kind = "MultiLineString" ->
            /\ "MultiGeometry" \in DOMAIN pm
            /\ pm.MultiGeometry.items[1].t = "object"
            /\ "LineString" \in DOMAIN pm.MultiGeometry.items[1]
      [] OTHER -> kind \in DOMAIN pm

Tagged(kind) == {i \in 1..Len(Document) : HasTag(Document[i], kind)}
RecordsOf(kind) == {i \in 1..Len(elements) : elements[i].type = kind}
KindSet == {Kinds[k] : k \in 1..Len(Kinds)}

\* C2: after a successful upload summary has exactly the four keys, each the
\* number of placemarks carrying that kind's tag, so the records of a kind are
\* never more than its count.
C2_CountsAreTagCounts ==
    Processed =>
        /\ DOMAIN summary = KindSet
        /\ \A kind \in KindSet :
              /\ summary[kind] = Cardinality(Tagged(kind))
              /\ Cardinality(RecordsOf(kind)) <= summary[kind]

\* a placemark with several tags counted under each, and a tag counted without
\* a record
C2_Witness ==
    /\ Processed
    /\ \E i \in 1..Len(Document) : Cardinality({kind \in KindSet : HasTag(Document[i], kind)}) = 4
    /\ summary.Point = 2 /\ Cardinality(RecordsOf("Point")) = 1

\* the coordinate text under the tag of a simple kind
TagText(pm, kind) ==
    LET g == pm[kind].items[1]
    IN  IF kind = "Polygon"
        THEN At0(Get(At0(Get(At0(Get(g, "outerBoundaryIs")), "LinearRing")), "coordinates"))
        ELSE At0(Get(g, "coordinates"))

MinCoords == [Point |-> 1, LineString |-> 2, Polygon |-> 3]

\* the sub-lines of a MultiGeometry with at least 2 parsed coordinates, in order
UsableLines(pm) ==
    LET lines == pm.MultiGeometry.items[1].LineString.items
    IN  SelectSeq([i \in 1..Len(lines) |-> parseCoordinates(At0(Get(lines[i], "coordinates")))],
                  LAMBDA cs : Len(cs.items) >= 2)

Reaches(pm, kind) ==
    /\ HasTag(pm, kind)
    /\ IF kind = "MultiLineString"
       THEN Len(UsableLines(pm)) >= 1
       ELSE Len(parseCoordinates(TagText(pm, kind)).items) >= MinCoords[kind]

\* the kinds of the records expected of the placemarks, in order
RECURSIVE ExpectedRecords(_)
ExpectedRecords(pms) ==
    IF pms = <<>> THEN <<>>
    ELSE LET pm == Head(pms)
             ks == SelectSeq(Kinds, LAMBDA kind : Reaches(pm, kind))
         IN  [k \in 1..Len(ks) |->
                 [type |-> ks[k],
                  coords |-> IF ks[k] = "MultiLineString" THEN Arr(UsableLines(pm))
                             ELSE parseCoordinates(TagText(pm, ks[k]))]]
             \o ExpectedRecords(Tail(pms))

\* C3: a record of a kind exists for a placemark exactly when the placemark has
\* the kind's tag and its parsed coordinates reach the threshold (1, 2, 3, one
\* sub-line of 2); sub-lines under 2 points are dropped; records follow the
\* placemark order and, within a placemark, the order of Kinds.
C3_RecordsIffThreshold ==
    Processed =>
        [i \in 1..Len(elements) |-> [type |-> elements[i].type, coords |-> elements[i].coords]]
            = ExpectedRecords(Document)

\* the first placemark yields all four records, the second has a Point tag
\* without a record
C3_Witness ==
    /\ Processed
    /\ Len(Document) = 2
    /\ [i \in 1..Len(elements) |-> elements[i].type] = Kinds
    /\ HasTag(Document[2], "Point")
    /\ Cardinality({kind \in KindSet : HasTag(Document[1], kind)}) = 4

IsPair(c) ==
    c.t = "array" /\ Len(c.items) = 2 /\ \A j \in 1..2 : c.items[j].t = "number"

\* C5: a Point record's coords is one (lat, lon) pair; the document with the one
\* unnamed placemark Point 1,2,0 gives the single record Point, named "Point",
\* coords [2, 1], and summary 1, 0, 0, 0.
C5_PointHoldsOnePair ==
    Processed =>
        /\ \A i \in RecordsOf("Point") : IsPair(elements[i].coords)
        /\ hist.applied = PointFile =>
              /\ elements = <<[type |-> "Point", coords |-> Arr(<<Deg(2), Deg(1)>>),
                               name |-> Text("Point")]>>
              /\ summary = [Point |-> 1, LineString |-> 0, Polygon |-> 0, MultiLineString |-> 0]

\* the length of the sub-lines before any rounding
RECURSIVE unroundedTotal(_)
unroundedTotal(lines) ==
    IF lines = <<>> THEN Num(0, 0)
    ELSE Plus(lengthLoop(Head(lines).items, 2, Num(0, 0)), unroundedTotal(Tail(lines)))

\* C10: the length stored for a MultiLineString record is the unrounded sum of its
\* sub-lines' lengths rounded once to 2 decimals.
C10_RoundedOnce ==
    \A i \in RecordsOf("MultiLineString") :
        elements[i].length = toFixed2(unroundedTotal(elements[i].coords.items))

-----------------------------------------------------------------------------
(* Properties of the two pure functions (SpecGeom) *)

IsFinite(x) == x.t = "number" /\ x.k = "fin"

\* the tuple has a longitude and a latitude field and both parse as finite numbers
Acceptable(tuple) ==
    LET fields == SplitChar(tuple, ",")
    IN  /\ Len(fields) >= 2
        /\ IsFinite(parseFloat(Str(fields[1])))
        /\ IsFinite(parseFloat(Str(fields[2])))

Swapped(tuple) ==
    LET fields == SplitChar(tuple, ",")
    IN  Arr(<<parseFloat(Str(fields[2])), parseFloat(Str(fields[1]))>>)

TuplesOf(cstr) == IF cstr = Undefined THEN <<>> ELSE SplitSpaces(Trim(cstr.chars))

\* C4: the output of parseCoordinates is the (lat, lon) of exactly the tuples whose
\* longitude and latitude both parse as finite numbers, in input order, with
\* repetitions kept.
C4_AcceptsIffFinite ==
    pc = "parsed" =>
        LET accepted == SelectSeq(TuplesOf(coordString), Acceptable)
        IN  result.items = [i \in 1..Len(accepted) |-> Swapped(accepted[i])]

\* digits, a point, two digits
TwoDecimals(chars) ==
    /\ Len(chars) >= 4
    /\ chars[Len(chars) - 2] = "."
    /\ \A i \in 1..Len(chars) : i # Len(chars) - 2 => IsDigit(chars[i])

Zero00 == Str(<<"0", ".", "0", "0">>)

\* every segment of the sequence has an endpoint that fails isValidCoordinate
NoValidSegment(items) ==
    \A i \in 2..Len(items) : ~isValidCoordinate(items[i - 1]) \/ ~isValidCoordinate(items[i])

\* C6: calculateLength returns a string with exactly 2 decimals for every
\* sequence, "0.00" for a missing, empty or one-coordinate sequence and for a
\* sequence all of whose segments have an invalid endpoint.
C6_AlwaysTwoDecimalString ==
    pc = "measured" =>
        /\ result.t = "string"
        /\ TwoDecimals(result.chars)
        /\ (coords = Undefined \/ NoValidSegment(coords.items)) => result = Zero00

====
